---- MODULE Spec2Model ----
(***************************************************************************)
(* House of Plants: the authentication routes (src/routes/auth.js) and the *)
(* res.locals.user middleware (src/app.js), as a state machine.            *)
(*                                                                         *)
(* A request is handled in steps: the synchronous part of a handler (the   *)
(* guard middleware, the validation, the start of the first asynchronous   *)
(* call) is one step, and every promise callback is one more step, so the  *)
(* requests in flight interleave exactly where node's event loop lets them.*)
(***************************************************************************)
EXTENDS Integers, Sequences, FiniteSets, Bags, TLC

VARIABLES
    users,           \* the User collection: a set of documents
    session,         \* the session store: session id -> session record
    mails,           \* the bag of recipients of the transporter.sendMail calls
    notified,        \* per request: what became of the promise of its sendMail
    plain,           \* the password each user signed up with: <<_id, password>>
    arrivals,        \* the number of requests received so far
    pc,              \* per request: where its handling stands
    route,           \* per request: method and path
    body,            \* per request: req.body
    locals,          \* per request: res.locals.user
    salt,            \* per request: the salt genSalt resolved with
    hashedPassword,  \* per request: the value bcrypt.hash resolved with
    found,           \* per request: the document login's findOne resolved with
    resps,           \* per request: the responses sent, in order
    thrown,          \* per request: the error of a rejection nobody handles
    created,         \* per request: the document its User.create inserted
    taken,           \* per request: were its username, its email in use on arrival
    boundBy,         \* per session: what last bound or destroyed it
    afterLogout      \* per request: arrived on a session a logout had destroyed

vars == <<users, session, mails, notified, plain, arrivals, pc, route, body, locals, salt,
          hashedPassword, found, resps, thrown, created, taken, boundBy,
          afterLogout>>

(***************************************************************************)
(* Bounds.                                                                 *)
(***************************************************************************)
MaxClients == 2      \* clients, each with its own session cookie
MaxArrivals == 3     \* requests received in one behaviour

Requests == 1..MaxClients     \* the request a client has under way, or its last
SessionIds == 1..MaxClients

\* the session id the cookie of the client of request r carries
sid == [r \in Requests |-> r]

(***************************************************************************)
(* Program constants.                                                      *)
(***************************************************************************)
saltRounds == 10
MinPasswordLength == 8
DuplicateKeyCode == 11000

(***************************************************************************)
(* Values. A form field is a string or absent (undefined).                 *)
(***************************************************************************)
Undefined == "<undefined>"

Falsy(x) == x = Undefined \/ x = ""

UsernameInputs == {Undefined, "", "alice", "bob"}
NameInputs     == {Undefined, "Al"}
EmailInputs    == {Undefined, "a@x", "b@x"}
PasswordInputs == {Undefined, "", "1234567", "12345678", "password2"}
Salts          == {"s1"}

NoHash == <<>>

NoUser == [_id |-> 0, username |-> "", email |-> "", name |-> "", password |-> NoHash]

NoBody == [username |-> Undefined, name |-> Undefined, email |-> Undefined,
           password |-> Undefined]

NoSession == [live |-> FALSE, user |-> NoUser]

SignupBodies == [username : UsernameInputs, name : NameInputs,
                 email : EmailInputs, password : PasswordInputs]

LoginBodies == [username : UsernameInputs, name : {Undefined},
                email : {Undefined}, password : PasswordInputs]

FlowSignupBodies == [username : {"alice", "bob"}, name : {"Al"},
                     email : {"a@x", "b@x"}, password : {"12345678"}]

FlowLoginBodies == [username : {"alice"}, name : {Undefined},
                    email : {Undefined}, password : {"12345678", "password2"}]

(***************************************************************************)
(* Responses.                                                              *)
(***************************************************************************)
Render(status, view, message) ==
    [kind |-> "render", status |-> status, to |-> view, msg |-> message]

Redirect(target) ==
    [kind |-> "redirect", status |-> 302, to |-> target, msg |-> ""]

NextError(error) ==
    [kind |-> "next", status |-> 500, to |-> "error-handling", msg |-> error]

MsgRequired   == "Please fill in all required fields."
MsgLength     == "Your password needs to be at least 8 characters long."
MsgTaken      == "Username or email already taken"
MsgDuplicate  == "Username and email need to be unique. The username/email you entered is already in use."
MsgBoth       == "Please provide your username and password."
MsgUsername   == "Please provide your username."
MsgPassword   == "Please provide your password."
MsgWrong      == "Wrong credentials."

(***************************************************************************)
(* The credential hasher: bcrypt.hash and bcrypt.compare.                  *)
(***************************************************************************)
Hash(password, s) == <<"bcrypt", saltRounds, s, password>>

\* mutant: compares against a hash made without the stored salt
CompareNoSalt(password, hash) ==
    /\ Len(hash) = 4
    /\ hash = Hash(password, "")

Compare(password, hash) ==
    /\ Len(hash) = 4
    /\ hash = Hash(password, hash[3])

(***************************************************************************)
(* The session of a request, and the middlewares in front of the routes.   *)
(***************************************************************************)
SessionUser(s) == session[s].user

HasUser(s) == session[s].live /\ SessionUser(s) # NoUser

LocalsUser(s) == IF HasUser(s) THEN SessionUser(s) ELSE NoUser

Pass == [kind |-> "pass", status |-> 0, to |-> "", msg |-> ""]

shouldNotBeLoggedIn(s) == IF HasUser(s) THEN Redirect("/") ELSE Pass

isLoggedIn(s) == IF ~HasUser(s) THEN Redirect("/auth/login") ELSE Pass

Routes == {"GET /signup", "POST /signup", "GET /login", "POST /login", "GET /logout"}

\* mutant: POST /login without shouldNotBeLoggedIn
GuardLoginOpen(rt, s) ==
    CASE rt = "GET /signup"  -> shouldNotBeLoggedIn(s)
      [] rt = "POST /signup" -> shouldNotBeLoggedIn(s)
      [] rt = "GET /login"   -> shouldNotBeLoggedIn(s)
      [] rt = "POST /login"  -> Pass
      [] rt = "GET /logout"  -> isLoggedIn(s)

\* mutant: GET /logout without isLoggedIn
GuardLogoutOpen(rt, s) ==
    CASE rt = "GET /signup"  -> shouldNotBeLoggedIn(s)
      [] rt = "POST /signup" -> shouldNotBeLoggedIn(s)
      [] rt = "GET /login"   -> shouldNotBeLoggedIn(s)
      [] rt = "POST /login"  -> shouldNotBeLoggedIn(s)
      [] rt = "GET /logout"  -> Pass

Guard(rt, s) ==
    CASE rt = "GET /signup"  -> shouldNotBeLoggedIn(s)
      [] rt = "POST /signup" -> shouldNotBeLoggedIn(s)
      [] rt = "GET /login"   -> shouldNotBeLoggedIn(s)
      [] rt = "POST /login"  -> shouldNotBeLoggedIn(s)
      [] rt = "GET /logout"  -> isLoggedIn(s)

(***************************************************************************)
(* The synchronous validation of the two forms: the response it ends the   *)
(* request with, or Pass.                                                  *)
(***************************************************************************)
\* mutant: the required-fields check leaves out the email
SignupValidationNoEmail(b) ==
    IF Falsy(b.username) \/ Falsy(b.name)
    THEN Render(400, "auth/signup", MsgRequired)
    ELSE IF b.password = Undefined
    THEN NextError("TypeError")
    ELSE IF Len(b.password) < MinPasswordLength
    THEN Render(400, "auth/signup", MsgLength)
    ELSE Pass

SignupValidation(b) ==
    IF Falsy(b.username) \/ Falsy(b.name) \/ Falsy(b.email)
    THEN Render(400, "auth/signup", MsgRequired)
    ELSE IF b.password = Undefined
    THEN NextError("TypeError")   \* password.length of undefined throws
    ELSE IF Len(b.password) < MinPasswordLength
    THEN Render(400, "auth/signup", MsgLength)
    ELSE Pass

LoginValidation(b) ==
    IF Falsy(b.password) /\ Falsy(b.password)
    THEN Render(400, "auth/login", MsgBoth)
    ELSE IF Falsy(b.username)
    THEN Render(400, "auth/login", MsgUsername)
    ELSE IF Falsy(b.password)
    THEN Render(400, "auth/login", MsgPassword)
    ELSE IF Len(b.password) < MinPasswordLength
    THEN Render(400, "auth/login", MsgLength)
    ELSE Pass

(***************************************************************************)
(* The User Store.                                                         *)
(***************************************************************************)
\* User.findOne({ $or: [{ username }, { email }] })
MatchUsernameOrEmail(b) ==
    {u \in users : u.username = b.username \/ u.email = b.email}

\* User.findOne({ username })
MatchUsername(b) == {u \in users : u.username = b.username}

\* the unique indexes of the User collection on username and on email
\* mutant: only the username is indexed unique
DuplicateKeyUsernameOnly(doc) ==
    \E u \in users : u.username = doc.username

DuplicateKey(doc) ==
    \E u \in users : u.username = doc.username \/ u.email = doc.email

\* mutant: the submitted password is stored as it came
NewUserPlain(b, hashed) ==
    [_id |-> Cardinality(users) + 1, username |-> b.username, email |-> b.email,
     name |-> b.name, password |-> <<b.password>>]

NewUser(b, hashed) ==
    [_id |-> Cardinality(users) + 1, username |-> b.username, email |-> b.email,
     name |-> b.name, password |-> hashed]

(***************************************************************************)
(* Init: no user, no session, no request.                                  *)
(***************************************************************************)
Init ==
    /\ users = {}
    /\ session = [s \in SessionIds |-> NoSession]
    /\ mails = EmptyBag
    /\ notified = [r \in Requests |-> "none"]
    /\ plain = {}
    /\ pc = [r \in Requests |-> "idle"]
    /\ route = [r \in Requests |-> "GET /login"]
    /\ arrivals = 0
    /\ body = [r \in Requests |-> NoBody]
    /\ locals = [r \in Requests |-> NoUser]
    /\ salt = [r \in Requests |-> ""]
    /\ hashedPassword = [r \in Requests |-> NoHash]
    /\ found = [r \in Requests |-> NoUser]
    /\ resps = [r \in Requests |-> <<>>]
    /\ thrown = [r \in Requests |-> ""]
    /\ created = [r \in Requests |-> NoUser]
    /\ taken = [r \in Requests |-> [username |-> FALSE, email |-> FALSE]]
    /\ boundBy = [s \in SessionIds |-> "none"]
    /\ afterLogout = [r \in Requests |-> FALSE]

(***************************************************************************)
(* Steps shared by the handlers.                                           *)
(***************************************************************************)
Answered == {"done", "unhandled"}

\* a request arrives: express-session loads its session, then app.js sets
\* res.locals.user from it
Arrive(r, s, rt, b) ==
    /\ pc[r] \in Answered \cup {"idle"}
    /\ \A q \in Requests : q < r => pc[q] # "idle"   \* clients are numbered
    /\ arrivals < MaxArrivals                         \* by their first request
    /\ arrivals' = arrivals + 1
    /\ route' = [route EXCEPT ![r] = rt]
    /\ body' = [body EXCEPT ![r] = b]
    /\ locals' = [locals EXCEPT ![r] = LocalsUser(s)]
    /\ thrown' = [thrown EXCEPT ![r] = ""]
    /\ created' = [created EXCEPT ![r] = NoUser]
    /\ afterLogout' = [afterLogout EXCEPT ![r] = boundBy[s] = "logout"]
    /\ taken' = [taken EXCEPT ![r] =
                   [username |-> \E u \in users : u.username = b.username,
                    email |-> \E u \in users : u.email = b.email]]
    /\ salt' = [salt EXCEPT ![r] = ""]
    /\ hashedPassword' = [hashedPassword EXCEPT ![r] = NoHash]
    /\ found' = [found EXCEPT ![r] = NoUser]
    /\ notified' = [notified EXCEPT ![r] = "none"]

\* the arriving request is answered in the same step, or goes on at `next`
ArriveThen(r, resp, next) ==
    IF resp # Pass
    THEN /\ pc' = [pc EXCEPT ![r] = "done"]
         /\ resps' = [resps EXCEPT ![r] = <<resp>>]
    ELSE /\ pc' = [pc EXCEPT ![r] = next]
         /\ resps' = [resps EXCEPT ![r] = <<>>]

\* a callback sends a response and the request ends
Respond(r, resp) ==
    /\ pc' = [pc EXCEPT ![r] = "done"]
    /\ resps' = [resps EXCEPT ![r] = Append(@, resp)]
    /\ salt' = [salt EXCEPT ![r] = ""]
    /\ hashedPassword' = [hashedPassword EXCEPT ![r] = NoHash]
    /\ found' = found

\* a callback throws, or a promise rejects, where no handler is attached:
\* node reports an unhandled rejection (and from version 15 on ends the
\* process); the request is never answered
Unhandled(r, error) ==
    /\ pc' = [pc EXCEPT ![r] = "unhandled"]
    /\ thrown' = [thrown EXCEPT ![r] = error]
    /\ salt' = [salt EXCEPT ![r] = ""]
    /\ hashedPassword' = [hashedPassword EXCEPT ![r] = NoHash]
    /\ found' = found

\* req.session.user = user, saved with the response
Bind(r, u, how) ==
    /\ session' = [session EXCEPT ![sid[r]] = [live |-> TRUE, user |-> u]]
    /\ boundBy' = [boundBy EXCEPT ![sid[r]] = how]

(***************************************************************************)
(* Errors: a name (also the message) and, for a MongoDB error, its code.   *)
(***************************************************************************)
Error(name, code) == [name |-> name, code |-> code]

ValidationError == Error("ValidationError", 0)
DuplicateKeyError == Error("MongoServerError", DuplicateKeyCode)
DbError == Error("DbError", 0)
HashError == Error("HashError", 0)

\* the .catch of the signup chain
SignupCatch(error) ==
    IF error.name = "ValidationError"
    THEN Render(400, "auth/signup", error.name)
    ELSE IF error.code = DuplicateKeyCode
    THEN Render(400, "signup", MsgDuplicate)
    ELSE Render(500, "auth/signup", error.name)

(***************************************************************************)
(* GET /auth/signup and GET /auth/login.                                   *)
(***************************************************************************)
GetSignup(r, s) ==
    /\ Arrive(r, s, "GET /signup", NoBody)
    /\ ArriveThen(r, IF Guard("GET /signup", s) # Pass
                     THEN Guard("GET /signup", s)
                     ELSE Render(200, "auth/signup", ""), "done")
    /\ UNCHANGED <<users, session, mails, plain, boundBy>>

GetLogin(r, s) ==
    /\ Arrive(r, s, "GET /login", NoBody)
    /\ ArriveThen(r, IF Guard("GET /login", s) # Pass
                     THEN Guard("GET /login", s)
                     ELSE Render(200, "auth/login", ""), "done")
    /\ UNCHANGED <<users, session, mails, plain, boundBy>>

(***************************************************************************)
(* POST /auth/signup.                                                      *)
(***************************************************************************)
PostSignup(r, s, b) ==
    /\ Arrive(r, s, "POST /signup", b)
    /\ ArriveThen(r, IF Guard("POST /signup", s) # Pass
                     THEN Guard("POST /signup", s)
                     ELSE SignupValidation(b), "signup.findOne")
    /\ UNCHANGED <<users, session, mails, plain, boundBy>>

\* User.findOne resolves: .then((found) => ...)
SignupFound(r) ==
    /\ pc[r] = "signup.findOne"
    /\ \E u \in MatchUsernameOrEmail(body[r]) :
          \* evaluating the render options reads `newsletter`, which is
          \* declared nowhere: a ReferenceError inside the callback, and
          \* the promise of this .then has no .catch
          Unhandled(r, "ReferenceError")
    /\ UNCHANGED <<users, session, mails, plain, notified, arrivals, route,
                   body, locals, resps, created, taken, boundBy, afterLogout>>

SignupNotFound(r) ==
    /\ pc[r] = "signup.findOne"
    /\ MatchUsernameOrEmail(body[r]) = {}
    /\ pc' = [pc EXCEPT ![r] = "signup.genSalt"]
    /\ UNCHANGED <<users, session, mails, plain, notified, arrivals, route,
                   body, locals, salt, hashedPassword, found, resps, thrown,
                   created, taken, boundBy, afterLogout>>

\* User.findOne rejects: the outer chain has no .catch
SignupFindOneFails(r) ==
    /\ pc[r] = "signup.findOne"
    /\ Unhandled(r, DbError.name)
    /\ UNCHANGED <<users, session, mails, plain, notified, arrivals, route,
                   body, locals, resps, created, taken, boundBy, afterLogout>>

GenSalt(r) ==
    /\ pc[r] = "signup.genSalt"
    /\ \E sl \in Salts : salt' = [salt EXCEPT ![r] = sl]
    /\ pc' = [pc EXCEPT ![r] = "signup.hash"]
    /\ UNCHANGED <<users, session, mails, plain, notified, arrivals, route,
                   body, locals, hashedPassword, found, resps, thrown, created,
                   taken, boundBy, afterLogout>>

HashPassword(r) ==
    /\ pc[r] = "signup.hash"
    /\ hashedPassword' = [hashedPassword EXCEPT ![r] = Hash(body[r].password, salt[r])]
    /\ pc' = [pc EXCEPT ![r] = "signup.create"]
    /\ UNCHANGED <<users, session, mails, plain, notified, arrivals, route,
                   body, locals, salt, found, resps, thrown, created, taken,
                   boundBy, afterLogout>>

\* bcrypt.genSalt or bcrypt.hash rejects: the .catch of the inner chain
HashFails(r) ==
    /\ pc[r] \in {"signup.genSalt", "signup.hash"}
    /\ Respond(r, SignupCatch(HashError))
    /\ UNCHANGED <<users, session, mails, plain, notified, arrivals, route,
                   body, locals, thrown, created, taken, boundBy, afterLogout>>

\* User.create resolves: bind the user, send the welcome mail, redirect
CreateUser(r) ==
    /\ pc[r] = "signup.create"
    /\ LET user == NewUser(body[r], hashedPassword[r]) IN
         /\ ~DuplicateKey(user)
         /\ users' = users \cup {user}
         /\ created' = [created EXCEPT ![r] = user]
         /\ Bind(r, user, "signup")
         /\ mails' = mails (+) SetToBag({user.email})
         /\ notified' = [notified EXCEPT ![r] = "pending"]
         /\ plain' = plain \cup {<<user._id, body[r].password>>}
    /\ Respond(r, Redirect("/"))
    /\ UNCHANGED <<arrivals, route, body, locals, thrown, taken, afterLogout>>

\* the promise transporter.sendMail returned settles, with nobody waiting
\* for it; it is followed until the client's next request
MailSettles(r, outcome) ==
    /\ notified[r] = "pending"
    /\ notified' = [notified EXCEPT ![r] = outcome]
    /\ UNCHANGED <<users, session, mails, plain, arrivals, pc, route, body,
                   locals, salt, hashedPassword, found, resps, thrown, created,
                   taken, boundBy, afterLogout>>

MailSent(r) == MailSettles(r, "sent")

\* a rejection with no handler: it reaches no request and no response
MailFails(r) == MailSettles(r, "failed")

\* mutant: the rejected signup sends the welcome mail all the same
CreateFailsNotifies(r, error) ==
    /\ pc[r] = "signup.create"
    /\ error = DuplicateKeyError
          => DuplicateKey(NewUser(body[r], hashedPassword[r]))
    /\ mails' = mails (+) SetToBag({body[r].email})
    /\ Respond(r, SignupCatch(error))
    /\ UNCHANGED <<users, session, notified, plain, arrivals, route, body,
                   locals, thrown, created, taken, boundBy, afterLogout>>

\* User.create rejects: a unique index, the schema, or the database
CreateFails(r, error) ==
    /\ pc[r] = "signup.create"
    /\ error = DuplicateKeyError
          => DuplicateKey(NewUser(body[r], hashedPassword[r]))
    /\ Respond(r, SignupCatch(error))
    /\ UNCHANGED <<users, session, mails, plain, notified, arrivals, route,
                   body, locals, thrown, created, taken, boundBy, afterLogout>>

(***************************************************************************)
(* POST /auth/login.                                                       *)
(***************************************************************************)
PostLogin(r, s, b) ==
    /\ Arrive(r, s, "POST /login", b)
    /\ ArriveThen(r, IF Guard("POST /login", s) # Pass
                     THEN Guard("POST /login", s)
                     ELSE LoginValidation(b), "login.findOne")
    /\ UNCHANGED <<users, session, mails, plain, boundBy>>

\* mutant: an unknown username gets a message of its own
LoginNotFoundTelling(r) ==
    /\ pc[r] = "login.findOne"
    /\ MatchUsername(body[r]) = {}
    /\ Respond(r, Render(400, "auth/login", "Username not found."))
    /\ UNCHANGED <<users, session, mails, plain, notified, arrivals, route,
                   body, locals, thrown, created, taken, boundBy, afterLogout>>

LoginNotFound(r) ==
    /\ pc[r] = "login.findOne"
    /\ MatchUsername(body[r]) = {}
    /\ Respond(r, Render(400, "auth/login", MsgWrong))
    /\ UNCHANGED <<users, session, mails, plain, notified, arrivals, route,
                   body, locals, thrown, created, taken, boundBy, afterLogout>>

LoginFound(r) ==
    /\ pc[r] = "login.findOne"
    /\ \E user \in MatchUsername(body[r]) :
          found' = [found EXCEPT ![r] = user]
    /\ pc' = [pc EXCEPT ![r] = "login.compare"]
    /\ UNCHANGED <<users, session, mails, plain, notified, arrivals, route,
                   body, locals, salt, hashedPassword, resps, thrown, created,
                   taken, boundBy, afterLogout>>

\* User.findOne rejects: .catch((err) => next(err))
LoginFindOneFails(r) ==
    /\ pc[r] = "login.findOne"
    /\ Respond(r, NextError(DbError.name))
    /\ UNCHANGED <<users, session, mails, plain, notified, arrivals, route,
                   body, locals, thrown, created, taken, boundBy, afterLogout>>

\* mutant: the user is bound before the passwords are compared
LoginMismatchBinds(r) ==
    /\ pc[r] = "login.compare"
    /\ ~Compare(body[r].password, found[r].password)
    /\ Bind(r, found[r], "login")
    /\ Respond(r, Render(400, "auth/login", MsgWrong))
    /\ UNCHANGED <<users, mails, plain, notified, arrivals, route, body, locals,
                   thrown, created, taken, afterLogout>>

\* mutant: a failed attempt removes the account
LoginMismatchDeletes(r) ==
    /\ pc[r] = "login.compare"
    /\ ~Compare(body[r].password, found[r].password)
    /\ users' = users \ {found[r]}
    /\ Respond(r, Render(400, "auth/login", MsgWrong))
    /\ UNCHANGED <<session, mails, plain, notified, arrivals, route, body, locals,
                   thrown, created, taken, boundBy, afterLogout>>

LoginMismatch(r) ==
    /\ pc[r] = "login.compare"
    /\ ~Compare(body[r].password, found[r].password)
    /\ Respond(r, Render(400, "auth/login", MsgWrong))
    /\ UNCHANGED <<users, session, mails, plain, notified, arrivals, route,
                   body, locals, thrown, created, taken, boundBy, afterLogout>>

LoginMatch(r) ==
    /\ pc[r] = "login.compare"
    /\ Compare(body[r].password, found[r].password)
    /\ Bind(r, found[r], "login")
    /\ Respond(r, Redirect("/"))
    /\ UNCHANGED <<users, mails, plain, notified, arrivals, route, body, locals,
                   thrown, created, taken, afterLogout>>

\* bcrypt.compare rejects: its promise is not returned to the chain that
\* has the .catch
CompareFails(r) ==
    /\ pc[r] = "login.compare"
    /\ Unhandled(r, "CompareError")
    /\ UNCHANGED <<users, session, mails, plain, notified, arrivals, route,
                   body, locals, resps, created, taken, boundBy, afterLogout>>

(***************************************************************************)
(* GET /auth/logout.                                                       *)
(***************************************************************************)
GetLogout(r, s) ==
    /\ Arrive(r, s, "GET /logout", NoBody)
    /\ ArriveThen(r, Guard("GET /logout", s), "logout.destroy")
    /\ UNCHANGED <<users, session, mails, plain, boundBy>>

\* mutant: redirects without destroying the session
DestroyedNot(r) ==
    /\ pc[r] = "logout.destroy"
    /\ session' = session
    /\ boundBy' = [boundBy EXCEPT ![sid[r]] = "logout"]
    /\ Respond(r, Redirect("/"))
    /\ UNCHANGED <<users, mails, plain, notified, arrivals, route, body, locals,
                   thrown, created, taken, afterLogout>>

\* req.session.destroy calls back without an error
Destroyed(r) ==
    /\ pc[r] = "logout.destroy"
    /\ session' = [session EXCEPT ![sid[r]] = NoSession]
    /\ boundBy' = [boundBy EXCEPT ![sid[r]] = "logout"]
    /\ Respond(r, Redirect("/"))
    /\ UNCHANGED <<users, mails, plain, notified, arrivals, route, body, locals,
                   thrown, created, taken, afterLogout>>

\* req.session.destroy calls back with an error
DestroyFails(r) ==
    /\ pc[r] = "logout.destroy"
    /\ Respond(r, Render(500, "auth/logout", "StoreError"))
    /\ UNCHANGED <<users, session, mails, plain, notified, arrivals, route,
                   body, locals, thrown, created, taken, boundBy, afterLogout>>

(***************************************************************************)
(* The specification.                                                      *)
(***************************************************************************)
\* the callbacks of the asynchronous calls of request r
Callbacks(r) ==
    \/ SignupFound(r)
    \/ SignupNotFound(r)
    \/ SignupFindOneFails(r)
    \/ GenSalt(r)
    \/ HashPassword(r)
    \/ HashFails(r)
    \/ CreateUser(r)
    \/ MailSent(r)
    \/ MailFails(r)
    \/ \E e \in {DuplicateKeyError, ValidationError, DbError} : CreateFails(r, e)
    \/ LoginNotFound(r)
    \/ LoginFound(r)
    \/ LoginFindOneFails(r)
    \/ LoginMismatch(r)
    \/ LoginMatch(r)
    \/ CompareFails(r)
    \/ Destroyed(r)
    \/ DestroyFails(r)

\* clients whose requests are in flight together, posting well-formed forms
Next ==
    \/ \E r \in Requests :
          \/ \E b \in FlowSignupBodies : PostSignup(r, sid[r], b)
          \/ \E b \in FlowLoginBodies : PostLogin(r, sid[r], b)
          \/ GetLogout(r, sid[r])
          \/ Callbacks(r)

Spec == Init /\ [][Next]_vars

\* one client, every route and every form
NextForms ==
    \/ \E r \in {1} :
          \/ GetSignup(r, sid[r])
          \/ GetLogin(r, sid[r])
          \/ \E b \in SignupBodies : PostSignup(r, sid[r], b)
          \/ \E b \in LoginBodies : PostLogin(r, sid[r], b)
          \/ GetLogout(r, sid[r])
          \/ Callbacks(r)

SpecForms == Init /\ [][NextForms]_vars

(***************************************************************************)
(* What the properties below speak about.                                  *)
(***************************************************************************)
LastResp(r) == IF resps[r] = <<>> THEN Pass ELSE resps[r][Len(resps[r])]

\* the session of request r carried no user when it arrived
Anonymous(r) == locals[r] = NoUser

\* a collaborator failed under request r: the database, bcrypt, the schema
\* validation or the session store
Faulted(r) ==
    \/ thrown[r] \in {"DbError", "CompareError"}
    \/ LastResp(r).msg \in {"DbError", "HashError", "ValidationError", "StoreError"}

RequiredMissing(b) == Falsy(b.username) \/ Falsy(b.name) \/ Falsy(b.email)

\* user u signed up with password p
SignedUpWith(u, p) == <<u._id, p>> \in plain

(***************************************************************************)
(* C1. Two concurrent signups with the same unused username: exactly one   *)
(* ends with a redirect to "/" and its user in its session, the other with *)
(* the 400 "already taken" render of the signup view, and exactly one User *)
(* record has that username.                                               *)
(***************************************************************************)
C1_ConcurrentSignups ==
    \A r1, r2 \in Requests :
        ( /\ r1 # r2
          /\ \A r \in {r1, r2} :
                /\ route[r] = "POST /signup"
                /\ pc[r] \in Answered
                /\ Anonymous(r)
                /\ SignupValidation(body[r]) = Pass
                /\ ~taken[r].username /\ ~taken[r].email
                /\ ~Faulted(r)
          /\ body[r1].username = body[r2].username )
        => /\ \E w, l \in {r1, r2} :
                /\ w # l
                /\ resps[w] = <<Redirect("/")>>
                /\ created[w] # NoUser
                /\ SessionUser(sid[w]) = created[w]
                /\ resps[l] = <<Render(400, "auth/signup", MsgTaken)>>
                /\ created[l] = NoUser
           /\ Cardinality({u \in users : u.username = body[r1].username}) = 1

(***************************************************************************)
(* C2. A valid signup whose username was already in use when it arrived is *)
(* answered with the 400 "Username or email already taken" render of the   *)
(* signup view, creates no User record and establishes no session.         *)
(***************************************************************************)
C2_ExistingUsernameRejected ==
    \A r \in Requests :
        ( /\ route[r] = "POST /signup"
          /\ pc[r] \in Answered
          /\ Anonymous(r)
          /\ SignupValidation(body[r]) = Pass
          /\ taken[r].username
          /\ ~Faulted(r) )
        => /\ resps[r] = <<Render(400, "auth/signup", MsgTaken)>>
           /\ created[r] = NoUser
           /\ ~HasUser(sid[r])

(***************************************************************************)
(* C3. A login with a password of at least 8 characters that finds no user *)
(* and one that finds a user with another password get the same response:  *)
(* 400, the login view, "Wrong credentials."; neither binds a user.        *)
(***************************************************************************)
WrongCredentials(r) ==
    /\ route[r] = "POST /login"
    /\ pc[r] = "done"
    /\ Anonymous(r)
    /\ LoginValidation(body[r]) = Pass
    /\ LastResp(r).kind # "next"
    /\ \/ found[r] = NoUser
       \/ ~SignedUpWith(found[r], body[r].password)

C3_WrongCredentialsIndistinguishable ==
    /\ \A r \in Requests :
          WrongCredentials(r)
          => /\ resps[r] = <<Render(400, "auth/login", MsgWrong)>>
             /\ ~HasUser(sid[r])
    /\ \A r1, r2 \in Requests :
          WrongCredentials(r1) /\ WrongCredentials(r2) => resps[r1] = resps[r2]

C3_Witness ==
    \E r \in Requests :
        /\ WrongCredentials(r)
        /\ found[r] # NoUser
        /\ \E q \in Requests : q # r /\ created[q] = found[r]

(***************************************************************************)
(* C4. After a successful logout the session record is gone, and every     *)
(* request that arrives on that session before a new login or signup binds *)
(* it is anonymous: no user in res.locals, and /auth/logout redirects to   *)
(* the login route.                                                        *)
(***************************************************************************)
C4_LogoutDestroysSession ==
    /\ \A s \in SessionIds : boundBy[s] = "logout" => session[s] = NoSession
    /\ \A r \in Requests :
          pc[r] # "idle" /\ afterLogout[r]
          => /\ locals[r] = NoUser
             /\ route[r] = "GET /logout"
                   => pc[r] = "done" /\ resps[r] = <<Redirect("/auth/login")>>

C4_Witness ==
    \E r \in Requests :
        /\ afterLogout[r]
        /\ route[r] = "GET /logout"
        /\ pc[r] = "done"

(***************************************************************************)
(* C5. Round trip: a login from an anonymous session with the username and *)
(* the password of a user that had signed up before redirects to "/" and   *)
(* binds exactly that user.                                                *)
(***************************************************************************)
RoundTrip ==
    \A r \in Requests : \A u \in users :
        ( /\ route[r] = "POST /login"
          /\ pc[r] \in Answered
          /\ Anonymous(r)
          /\ taken[r].username
          /\ u.username = body[r].username
          /\ SignedUpWith(u, body[r].password)
          /\ ~Faulted(r) )
        => /\ resps[r] = <<Redirect("/")>>
           /\ session[sid[r]] = [live |-> TRUE, user |-> u]

AnonymousOnly == {"GET /signup", "POST /signup", "GET /login", "POST /login"}

C6_AuthenticatedRedirectedHome ==
    \A r \in Requests :
        pc[r] # "idle" /\ route[r] \in AnonymousOnly /\ ~Anonymous(r)
        => /\ pc[r] = "done"
           /\ resps[r] = <<Redirect("/")>>
           /\ created[r] = NoUser
           /\ found[r] = NoUser
           /\ SessionUser(sid[r]) = locals[r]

C6_Witness ==
    \E r \in Requests :
        /\ route[r] = "POST /login"
        /\ ~Anonymous(r)
        /\ LoginValidation(body[r]) = Pass
        /\ body[r].username = locals[r].username
        /\ pc[r] = "done"

(***************************************************************************)
(* C7. GET /auth/logout on a session without a user is answered with a     *)
(* redirect to the login route and session.destroy is not called.          *)
(***************************************************************************)
C7_AnonymousLogoutRedirected ==
    \A r \in Requests :
        pc[r] # "idle" /\ route[r] = "GET /logout" /\ Anonymous(r)
        => /\ pc[r] = "done"
           /\ resps[r] = <<Redirect("/auth/login")>>
           /\ boundBy[sid[r]] = "logout" => afterLogout[r]

C7_Witness ==
    \E r, q \in Requests :
        /\ route[r] = "GET /logout" /\ Anonymous(r) /\ pc[r] = "done"
        /\ q # r /\ HasUser(sid[q])

(***************************************************************************)
(* C8. A signup in which username, name or email is missing or empty,      *)
(* whatever the password, is answered with the 400 "Please fill in all     *)
(* required fields." render of the signup view at once: the User Store is  *)
(* not queried, no record is created, no session is established.           *)
(***************************************************************************)
C8_MissingRequiredField ==
    \A r \in Requests :
        ( /\ pc[r] # "idle"
          /\ route[r] = "POST /signup"
          /\ Anonymous(r)
          /\ RequiredMissing(body[r]) )
        => /\ pc[r] = "done"
           /\ resps[r] = <<Render(400, "auth/signup", MsgRequired)>>
           /\ created[r] = NoUser
           /\ ~HasUser(sid[r])

C8_Witness ==
    \E r \in Requests :
        /\ route[r] = "POST /signup"
        /\ Anonymous(r)
        /\ body[r].username = "alice" /\ body[r].name = "Al"
        /\ body[r].email = Undefined /\ body[r].password = Undefined
        /\ pc[r] = "done"
        /\ users # {}

(***************************************************************************)
(* C9. A signup or login whose password is shorter than 8 characters (the  *)
(* empty and the absent password included), the other required fields      *)
(* being there, is answered with the 400 "Your password needs to be at     *)
(* least 8 characters long." render of its view, and binds no user.        *)
(***************************************************************************)
ShortPassword(r) ==
    /\ pc[r] # "idle"
    /\ Anonymous(r)
    /\ \/ route[r] = "POST /signup" /\ ~RequiredMissing(body[r])
       \/ route[r] = "POST /login" /\ ~Falsy(body[r].username)
    /\ \/ Falsy(body[r].password)
       \/ Len(body[r].password) < MinPasswordLength

ViewOf(r) == IF route[r] = "POST /signup" THEN "auth/signup" ELSE "auth/login"

C9_ShortPasswordLengthMessage ==
    \A r \in Requests :
        ShortPassword(r)
        => /\ resps[r] = <<Render(400, ViewOf(r), MsgLength)>>
           /\ ~HasUser(sid[r])

(***************************************************************************)
(* C10. Every request gets exactly one response on every path: none ends   *)
(* with its last callback run and no response sent, or with an error       *)
(* nobody handles.                                                         *)
(***************************************************************************)
C10_EveryRequestAnswered ==
    \A r \in Requests :
        /\ pc[r] # "unhandled"
        /\ pc[r] = "done" => Len(resps[r]) = 1

(***************************************************************************)
(* C11. POST /auth/login validates in this order, each failure a 400       *)
(* render of the login view with its own message and no lookup: username   *)
(* and password both missing, the generic prompt; only the username        *)
(* missing, the username prompt; only the password missing, the password   *)
(* prompt; a password shorter than 8 characters, the length prompt.        *)
(***************************************************************************)
LoginPrompt(b) ==
    IF Falsy(b.username) /\ Falsy(b.password) THEN MsgBoth
    ELSE IF Falsy(b.username) THEN MsgUsername
    ELSE IF Falsy(b.password) THEN MsgPassword
    ELSE MsgLength

C11_LoginValidationOrder ==
    \A r \in Requests :
        ( /\ pc[r] # "idle"
          /\ route[r] = "POST /login"
          /\ Anonymous(r)
          /\ \/ Falsy(body[r].username)
             \/ Falsy(body[r].password)
             \/ Len(body[r].password) < MinPasswordLength )
        => /\ pc[r] = "done"
           /\ resps[r] = <<Render(400, "auth/login", LoginPrompt(body[r]))>>
           /\ found[r] = NoUser

(***************************************************************************)
(* C12. On POST /auth/login a failure of User.findOne or of bcrypt.compare *)
(* is passed to the error handler with next(err): it is not rendered       *)
(* inline, not dropped, and binds no user.                                 *)
(***************************************************************************)
LoginFailure(r) ==
    /\ route[r] = "POST /login"
    /\ pc[r] \in Answered
    /\ \/ thrown[r] \in {"DbError", "CompareError"}
       \/ LastResp(r).msg \in {"DbError", "CompareError"}

C12_LoginFailuresForwarded ==
    \A r \in Requests :
        LoginFailure(r)
        => /\ pc[r] = "done"
           /\ Len(resps[r]) = 1
           /\ LastResp(r).kind = "next"
           /\ ~HasUser(sid[r])

(***************************************************************************)
(* C13. In every reachable state no two User records share a username and  *)
(* no two share an email.                                                  *)
(***************************************************************************)
C13_UsernameAndEmailUnique ==
    \A u, v \in users :
        u # v => u.username # v.username /\ u.email # v.email

\* two signups with different usernames and the same email raced past the
\* lookup, and the second create was rejected
C13_Witness ==
    \E r, q \in Requests :
        /\ q # r
        /\ created[q] # NoUser
        /\ route[r] = "POST /signup"
        /\ ~taken[r].username /\ ~taken[r].email
        /\ body[r].email = created[q].email
        /\ body[r].username # created[q].username
        /\ LastResp(r) = Render(400, "signup", MsgDuplicate)

(***************************************************************************)
(* C14. The password field of every User record holds the salted hash of   *)
(* the password its signup submitted, never the plaintext: User.create is  *)
(* called only once bcrypt.hash has resolved, and with that value.         *)
(***************************************************************************)
C14_PasswordStoredHashed ==
    /\ \A u \in users : \E p \in PasswordInputs : \E sl \in Salts :
          /\ SignedUpWith(u, p)
          /\ u.password = Hash(p, sl)
          /\ u.password # <<p>>
    /\ \A r \in Requests :
          /\ pc[r] = "signup.create"
                => /\ salt[r] \in Salts
                   /\ hashedPassword[r] = Hash(body[r].password, salt[r])
          /\ created[r] # NoUser
                => \E sl \in Salts :
                      created[r].password = Hash(body[r].password, sl)

C14_Witness ==
    \E r \in Requests :
        /\ created[r] \in users
        /\ created[r].password = Hash("12345678", "s1")
        /\ SignedUpWith(created[r], "12345678")

(***************************************************************************)
(* C15. A signup whose User.create succeeds binds the created user to its  *)
(* session, calls the welcome notification for that user's email exactly   *)
(* once and redirects to "/".  The redirect does not wait for the          *)
(* notification and the response is the same whatever becomes of it.  A    *)
(* signup that creates no user sends no notification.                      *)
(***************************************************************************)

C15_WelcomeNotification ==
    /\ \A r \in Requests :
          /\ created[r] # NoUser
                => /\ pc[r] = "done"
                   /\ resps[r] = <<Redirect("/")>>
                   /\ SessionUser(sid[r]) = created[r]
                   /\ notified[r] \in {"pending", "sent", "failed"}
                   /\ CopiesIn(created[r].email, mails) = 1
          /\ created[r] = NoUser => notified[r] = "none"
    /\ \A e \in EmailInputs :
          CopiesIn(e, mails) = Cardinality({u \in users : u.email = e})

\* a signup was redirected and its notification failed afterwards, while
\* another signup was rejected
C15_Witness ==
    \E r, q \in Requests :
        /\ created[r] # NoUser
        /\ resps[r] = <<Redirect("/")>>
        /\ notified[r] = "failed"
        /\ route[q] = "POST /signup"
        /\ pc[q] = "done"
        /\ created[q] = NoUser

(***************************************************************************)
(* C16. A user is bound to a request's session only on the success path:   *)
(* a signup or login request that ended in anything other than a redirect  *)
(* to "/" has a session without a user, and a signup request that created  *)
(* a User record ended with that user bound and a redirect to "/".         *)
(***************************************************************************)
C16_BoundOnlyOnSuccess ==
    \A r \in Requests :
        /\ ( /\ route[r] \in {"POST /signup", "POST /login"}
             /\ pc[r] \in Answered
             /\ resps[r] # <<Redirect("/")>> )
              => /\ ~HasUser(sid[r])
                 /\ created[r] = NoUser
        /\ created[r] # NoUser
              => /\ created[r] \in users
                 /\ pc[r] = "done"
                 /\ resps[r] = <<Redirect("/")>>
                 /\ SessionUser(sid[r]) = created[r]

\* one client signed up and is bound; the other found that account and
\* failed the comparison
C16_Witness ==
    \E r, q \in Requests :
        /\ route[r] = "POST /login"
        /\ resps[r] = <<Render(400, "auth/login", MsgWrong)>>
        /\ found[r] = created[q]
        /\ ~HasUser(sid[r])
        /\ SessionUser(sid[q]) = created[q]
        /\ resps[q] = <<Redirect("/")>>

(***************************************************************************)
(* C17. No step of a POST /auth/login request changes the User Store, and  *)
(* only the step that answers with the redirect to "/" changes a session.  *)
(* No step of a POST /auth/signup request other than the one that creates  *)
(* the user changes the User Store or a session.  The arrival of a request *)
(* (guard and validation) changes neither.                                 *)
(***************************************************************************)
CallbackOf(r, rt) ==
    /\ route[r] = rt
    /\ pc[r] \notin Answered \cup {"idle"}
    /\ pc'[r] # pc[r]

C17_RejectionsChangeNothing ==
    [][ /\ arrivals' # arrivals => users' = users /\ session' = session
        /\ \A r \in Requests :
              /\ CallbackOf(r, "POST /login")
                    => /\ users' = users
                       /\ \/ resps'[r] = <<Redirect("/")>>
                          \/ session' = session
              /\ (CallbackOf(r, "POST /signup") /\ created'[r] = NoUser)
                    => /\ users' = users
                       /\ session' = session ]_vars

\* a client signed up, logged out and then failed a login: the account is
\* still stored and the session is as the logout left it
C17_Witness ==
    \E r \in Requests :
        /\ route[r] = "POST /login"
        /\ afterLogout[r]
        /\ resps[r] = <<Render(400, "auth/login", MsgWrong)>>
        /\ found[r] \in users
        /\ session[sid[r]] = NoSession
        /\ boundBy[sid[r]] = "logout"
====
